---- MODULE Spec2Model ----
(***************************************************************************)
(* A model of pdf_merger.py: the command line tool that finds the PDF      *)
(* files of a directory whose names match a regular expression, sorts them *)
(* naturally and concatenates their pages into one output file.            *)
(*                                                                         *)
(* Text is modelled as a sequence of Unicode code points, so that the      *)
(* case folding, the digit tests and the comparisons of the code are       *)
(* computed and not assumed: "L2.pdf" is <<76, 50, 46, 112, 100, 102>>.    *)
(* A path is the sequence of its components from the root.                 *)
(***************************************************************************)
EXTENDS Integers, Sequences, FiniteSets, TLC

\* ------------------------------------------------------------------ bounds

\* The most entries the scanned directory holds in the file-name scenarios.
MaxFiles == 3
\* The most pages a PDF file holds in the content scenarios.
MaxPages == 3

\* ------------------------------------------------------------- text helpers

Min(a, b) == IF a < b THEN a ELSE b

\* str.lower() on one code point (ASCII letters; other code points of the
\* model's alphabet have no lower-case form).
LowerChar(c) == IF c >= 65 /\ c <= 90 THEN c + 32 ELSE c

\* str.lower()
Lower(s) == [i \in 1..Len(s) |-> LowerChar(s[i])]

\* \d of the re module on a str pattern: the decimal digits.
IsReDigit(c) == c >= 48 /\ c <= 57

\* What str.isdigit() accepts for one character: the decimal digits and the
\* other characters with a digit value, such as the superscripts 178, 179, 185.
IsDigitChar(c) == IsReDigit(c) \/ c \in {178, 179, 185}

\* str.isdigit(): false for the empty string.
IsDigit(s) == s # <<>> /\ \A i \in 1..Len(s) : IsDigitChar(s[i])

\* Whether int(s) raises ValueError: int() reads decimal digits only.
IntRaises(s) == s = <<>> \/ \E i \in 1..Len(s) : ~IsReDigit(s[i])

\* int(s) for a string of decimal digits.
RECURSIVE IntValue(_)
IntValue(s) ==
    IF s = <<>> THEN 0
    ELSE 10 * IntValue(SubSeq(s, 1, Len(s) - 1)) + (s[Len(s)] - 48)

\* Python's < on two str values: by code point, a proper prefix first.
RECURSIVE StrLess(_, _)
StrLess(a, b) ==
    IF b = <<>> THEN FALSE
    ELSE IF a = <<>> THEN TRUE
    ELSE IF a[1] # b[1] THEN a[1] < b[1]
    ELSE StrLess(Tail(a), Tail(b))

\* The final component of a path, Path.name ('' for the path '.').
NameOf(p) == IF p = <<>> THEN <<>> ELSE p[Len(p)]

\* The path without its final component, Path.parent.
ParentOf(p) == IF p = <<>> THEN <<>> ELSE SubSeq(p, 1, Len(p) - 1)

\* ---------------------------------------------------------- natural_sort_key

\* re.split(r'(\d+)', text): the text cut at its digit runs, the runs kept.
\* The result alternates non-digit run, digit run, ..., non-digit run; the
\* non-digit runs at the two ends may be empty.
RECURSIVE SplitFrom(_, _, _, _)
SplitFrom(text, i, cur, inDigits) ==
    IF i > Len(text)
    THEN IF inDigits THEN <<cur, <<>>>> ELSE <<cur>>
    ELSE IF IsReDigit(text[i]) = inDigits
    THEN SplitFrom(text, i + 1, Append(cur, text[i]), inDigits)
    ELSE <<cur>> \o SplitFrom(text, i + 1, <<text[i]>>, ~inDigits)

ReSplit(text) == SplitFrom(text, 1, <<>>, FALSE)

convertNoInt(part) == [t |-> "str", n |-> 0, s |-> Lower(part)]

\* convert(text_part): int(text_part) if text_part.isdigit() else
\* text_part.lower().  t is "int", "str", or "ValueError" when int() raises.
convert(part) ==
    IF IsDigit(part)
    THEN IF IntRaises(part)
         THEN [t |-> "ValueError", n |-> 0, s |-> part]
         ELSE [t |-> "int", n |-> IntValue(part), s |-> <<>>]
    ELSE [t |-> "str", n |-> 0, s |-> Lower(part)]

\* natural_sort_key(text): the list of converted runs.
natural_sort_key(text) ==
    LET parts == ReSplit(text)
    IN  [i \in 1..Len(parts) |-> convert(parts[i])]

\* Whether computing the key raises.
KeyRaises(text) ==
    \E i \in 1..Len(natural_sort_key(text)) :
        natural_sort_key(text)[i].t = "ValueError"

\* The first index at which two keys differ, 0 when one is a prefix of the
\* other (or they are equal).
FirstDiff(a, b) ==
    LET D == {i \in 1..Min(Len(a), Len(b)) : a[i] # b[i]}
    IN  IF D = {} THEN 0 ELSE CHOOSE i \in D : \A j \in D : i <= j

\* Python's < on two key elements of the same type.
ElemLess(x, y) == IF x.t = "int" THEN x.n < y.n ELSE StrLess(x.s, y.s)

\* Python's < on two lists: decided by the first differing elements, else by
\* length.  An int compared with a str raises TypeError.
KeyCompareRaises(a, b) ==
    LET d == FirstDiff(a, b) IN d # 0 /\ a[d].t # b[d].t

KeyLess(a, b) ==
    LET d == FirstDiff(a, b)
    IN  IF d = 0 THEN Len(a) < Len(b) ELSE ElemLess(a[d], b[d])

\* list.sort(key=...): stable; x goes after every element it is not less than.
RECURSIVE InsertByKey(_, _)
InsertByKey(sorted, x) ==
    IF sorted = <<>> THEN <<x>>
    ELSE LET last == sorted[Len(sorted)]
         IN  IF KeyLess(natural_sort_key(NameOf(x)),
                        natural_sort_key(NameOf(last)))
             THEN Append(InsertByKey(SubSeq(sorted, 1, Len(sorted) - 1), x), last)
             ELSE Append(sorted, x)

RECURSIVE SortFrom(_, _, _)
SortFrom(list, i, acc) ==
    IF i > Len(list) THEN acc
    ELSE SortFrom(list, i + 1, InsertByKey(acc, list[i]))

Unsorted(list) == list

\* matching_files.sort(key=lambda x: natural_sort_key(x.name)) on a list of paths.
SortByName(list) == SortFrom(list, 1, <<>>)

\* Whether the sort raises: a key that cannot be computed, or two keys that
\* cannot be compared.
SortRaises(list) ==
    \/ \E i \in 1..Len(list) : KeyRaises(NameOf(list[i]))
    \/ \E i, j \in 1..Len(list) :
           KeyCompareRaises(natural_sort_key(NameOf(list[i])),
                            natural_sort_key(NameOf(list[j])))

\* ------------------------------------------------------------------ pathlib

\* The text ".pdf".
DotPdf == <<46, 112, 100, 102>>

\* The 1-based index of the last "." of a name, 0 when it has none
\* (name.rfind('.') + 1).
LastDot(name) ==
    LET D == {i \in 1..Len(name) : name[i] = 46}
    IN  IF D = {} THEN 0 ELSE CHOOSE i \in D : \A j \in D : j <= i

\* PurePath.suffix of a final component: from its last dot, unless that dot
\* is its first or its last character.
suffix(name) ==
    LET i == LastDot(name)
    IN  IF 1 < i /\ i < Len(name) THEN SubSeq(name, i, Len(name)) ELSE <<>>

\* PurePath.with_suffix raises ValueError on an empty name.
WithSuffixRaises(name) == name = <<>>

WithSuffixAppend(name, sfx) == name \o sfx

\* PurePath.with_suffix(sfx) on the final component: the old suffix is
\* replaced, or sfx is appended when there is none.
with_suffix(name, sfx) ==
    LET old == suffix(name)
    IN  IF old = <<>> THEN name \o sfx
        ELSE SubSeq(name, 1, Len(name) - Len(old)) \o sfx

\* ----------------------------------------------------------------------- re

\* A pattern is a sequence of tokens [k, c, star]: k is "lit" (the character
\* c), "any" (.), "dig" (\d), "bol" (^), "eol" ($) or "lparen" (an unclosed
\* parenthesis); star marks a token followed by *.  Only a pattern that
\* compiles is matched.
Tok(k, c, star) == [k |-> k, c |-> c, star |-> star]

\* re.compile(pattern, re.IGNORECASE) raises re.error on an unclosed group
\* ("missing )") and on a * that follows ^ or $ ("nothing to repeat").
CompileRaises(pattern) ==
    \E i \in 1..Len(pattern) :
        \/ pattern[i].k = "lparen"
        \/ pattern[i].k \in {"bol", "eol"} /\ pattern[i].star

\* Whether a one-character token matches a character, under re.IGNORECASE.
TokMatches(tok, ch) ==
    CASE tok.k = "lit" -> LowerChar(tok.c) = LowerChar(ch)
      [] tok.k = "any" -> ch # 10
      [] tok.k = "dig" -> IsReDigit(ch)
      [] OTHER -> FALSE

\* Whether the tokens from i on match the text starting at position j.
RECURSIVE MatchHere(_, _, _, _)
MatchHere(pattern, i, text, j) ==
    IF i > Len(pattern) THEN TRUE
    ELSE LET tok == pattern[i]
         IN  CASE tok.k = "bol" -> j = 1 /\ MatchHere(pattern, i + 1, text, j)
               [] tok.k = "eol" ->
                      \* $ without re.MULTILINE: at the end of the text, or
                      \* just before a newline that ends it.
                      /\ \/ j = Len(text) + 1
                         \/ j = Len(text) /\ text[j] = 10
                      /\ MatchHere(pattern, i + 1, text, j)
               [] tok.star ->
                      \E k \in j..(Len(text) + 1) :
                          /\ \A m \in j..(k - 1) : TokMatches(tok, text[m])
                          /\ MatchHere(pattern, i + 1, text, k)
               [] OTHER ->
                      /\ j <= Len(text)
                      /\ TokMatches(tok, text[j])
                      /\ MatchHere(pattern, i + 1, text, j + 1)

\* regex.search(text) is not None: a match starting anywhere in the text.
Search(pattern, text) ==
    \E j \in 1..(Len(text) + 1) : MatchHere(pattern, 1, text, j)

\* ------------------------------------------------------------- file system

\* A regular file: its pages, and where reading it fails.  failAt is 0 for a
\* file that reads without error, 1 for one PdfReader(...) cannot open, and
\* k + 1 for one whose k-th page raises when it is copied.
File(pages, failAt) ==
    [kind |-> "file", pages |-> pages, failAt |-> failAt, writable |-> TRUE]

\* A directory; files can be created in it when it is writable.
Dir(writable) ==
    [kind |-> "dir", pages |-> <<>>, failAt |-> 0, writable |-> writable]

\* Path.exists(), Path.is_dir(), Path.is_file() in file system f (the root
\* always exists).
Exists(f, p) == p = <<>> \/ p \in DOMAIN f
IsDir(f, p) == p = <<>> \/ (p \in DOMAIN f /\ f[p].kind = "dir")
IsFile(f, p) == p \in DOMAIN f /\ f[p].kind = "file"

\* directory.iterdir(): the immediate entries of a directory.
IterDir(f, d) ==
    {p \in DOMAIN f : Len(p) = Len(d) + 1 /\ SubSeq(p, 1, Len(d)) = d}

\* The orders in which iterdir() may yield a set of entries: any.
RECURSIVE Enumerations(_)
Enumerations(S) ==
    IF S = {} THEN {<<>>}
    ELSE UNION {{<<p>> \o e : e \in Enumerations(S \ {p})} : p \in S}

\* Whether open(path, 'wb') raises: the parent is missing, the path is a
\* directory, or the file would have to be created in a read-only directory.
OpenForWriteRaises(f, p) ==
    \/ p = <<>>
    \/ ~IsDir(f, ParentOf(p))
    \/ IsDir(f, p)
    \/ (~Exists(f, p) /\ ParentOf(p) # <<>> /\ ~f[ParentOf(p)].writable)

\* The file system after path p is written with the given pages.
WriteFile(f, p, pages) ==
    [q \in DOMAIN f \cup {p} |-> IF q = p THEN File(pages, 0) ELSE f[q]]

\* ---------------------------------------------------------------- scenarios

\* Directory names: the working directory /w, another directory /o, a
\* read-only directory /r, and n, which does not exist.
Cwd == <<<<119>>>>
OtherDir == <<<<111>>>>
ReadOnlyDir == <<<<114>>>>
MissingName == <<110>>

\* File names.
L2pdf == <<76, 50, 46, 112, 100, 102>>            \* "L2.pdf"
L10pdf == <<76, 49, 48, 46, 112, 100, 102>>       \* "L10.pdf"
L02pdf == <<76, 48, 50, 46, 112, 100, 102>>       \* "L02.pdf"
l2PDF == <<108, 50, 46, 80, 68, 70>>              \* "l2.PDF"
L3pdf == <<76, 51, 46, 112, 100, 102>>            \* "L3.pdf"
aTxt == <<97, 46, 116, 120, 116>>                 \* "a.txt"
Sup1pdf == <<178, 49, 46, 112, 100, 102>>         \* "²1.pdf"
OutPdf == <<111, 117, 116, 46, 112, 100, 102>>    \* "out.pdf"
Dpdf == <<100, 46, 112, 100, 102>>                \* "d.pdf", a directory
Apdf == <<65, 46, 112, 100, 102>>                 \* "A.pdf"
Bpdf == <<66, 46, 112, 100, 102>>                 \* "B.pdf"
Cpdf == <<67, 46, 112, 100, 102>>                 \* "C.pdf"
OutBare == <<111, 117, 116>>                      \* "out"
OutTxt == <<111, 117, 116, 46, 116, 120, 116>>    \* "out.txt"
XPDF == <<88, 46, 80, 68, 70>>                    \* "X.PDF"

\* The pages of the file first stored under a name: page k of that file.
Pages(name, n) == [k \in 1..n |-> [f |-> name, k |-> k]]

\* The file system outside the scanned directory.
BaseFs ==
    (Cwd :> Dir(TRUE)) @@ (OtherDir :> Dir(TRUE)) @@ (ReadOnlyDir :> Dir(FALSE))

\* The regular expressions of the scenarios.
PatLDigit == <<Tok("lit", 76, FALSE), Tok("dig", 0, FALSE)>>     \* L\d
PatAllPdf ==                                                     \* .*\.pdf
    <<Tok("any", 0, TRUE), Tok("lit", 46, FALSE), Tok("lit", 112, FALSE),
      Tok("lit", 100, FALSE), Tok("lit", 102, FALSE)>>
PatAnchored ==                                                   \* ^l.*\.pdf$
    <<Tok("bol", 0, FALSE), Tok("lit", 108, FALSE)>> \o PatAllPdf
        \o <<Tok("eol", 0, FALSE)>>
PatOut ==                                                        \* out
    <<Tok("lit", 111, FALSE), Tok("lit", 117, FALSE), Tok("lit", 116, FALSE)>>
PatTwo == <<Tok("lit", 50, FALSE)>>                              \* 2
PatUnclosed == <<Tok("lparen", 0, FALSE)>>                       \* (
PatStarredAnchor == <<Tok("bol", 0, TRUE), Tok("lit", 76, FALSE)>> \* ^*L
Patterns ==
    {PatLDigit, PatAllPdf, PatAnchored, PatOut, PatTwo, PatUnclosed,
     PatStarredAnchor}

\* A path argument: absolute or relative, and its components.
Arg(abs, path) == [abs |-> abs, path |-> path]

\* The -o arguments of the scenarios.
Outputs ==
    {Arg(FALSE, <<OutPdf>>), Arg(FALSE, <<OutBare>>), Arg(FALSE, <<OutTxt>>),
     Arg(FALSE, <<DotPdf>>), Arg(FALSE, <<XPDF>>), Arg(FALSE, <<>>),
     Arg(FALSE, <<L2pdf>>), Arg(FALSE, <<Dpdf>>),
     Arg(FALSE, <<MissingName, OutPdf>>),
     Arg(TRUE, OtherDir \o <<OutPdf>>), Arg(TRUE, ReadOnlyDir \o <<OutPdf>>)}

\* The -d arguments of the scenarios: the default '.', the working directory
\* by its absolute path, another directory, a missing one, and a file.
Directories ==
    {Arg(FALSE, <<>>), Arg(TRUE, Cwd), Arg(TRUE, OtherDir),
     Arg(TRUE, <<MissingName>>), Arg(FALSE, <<L2pdf>>)}

Args(pattern, output, directory) ==
    [pattern |-> pattern, output |-> output, directory |-> directory]

\* The entry stored under a name of the scanned directory: d.pdf is a
\* directory, every other name a readable file of one page.
PlainEntry(name) == IF name = Dpdf THEN Dir(TRUE) ELSE File(Pages(name, 1), 0)

\* A directory /w holding the given names, and inside d.pdf the file L3.pdf.
FsOf(names) ==
    LET inCwd == [p \in {Cwd \o <<n>> : n \in names} |-> PlainEntry(NameOf(p))]
        nested == IF Dpdf \in names
                  THEN (Cwd \o <<Dpdf, L3pdf>>) :> File(Pages(L3pdf, 1), 0)
                  ELSE <<>>
    IN  IF Dpdf \in names THEN BaseFs @@ inCwd @@ nested ELSE BaseFs @@ inCwd

NamePool == {L2pdf, L10pdf, L02pdf, l2PDF, aTxt, Sup1pdf, OutPdf, Dpdf}

\* Scenarios about file names: up to MaxFiles entries of the name pool, every
\* pattern, the output out.pdf in the scanned directory.
NameScenarios ==
    {[fs |-> FsOf(S),
      args |-> Args(pat, Arg(FALSE, <<OutPdf>>), Arg(FALSE, <<>>))] :
        S \in {T \in SUBSET NamePool : Cardinality(T) <= MaxFiles},
        pat \in Patterns}

\* The contents a PDF file may have: its number of pages and where reading
\* it fails.
Contents ==
    {c \in [n : 1..MaxPages, failAt : 0..(MaxPages + 1)] : c.failAt <= c.n + 1}

\* Scenarios about contents: files A.pdf, B.pdf, C.pdf of any contents, all
\* matched, the output out.pdf in the scanned directory.
ContentScenarios ==
    UNION {
        {[fs |-> BaseFs @@ [p \in {Cwd \o <<n>> : n \in S} |->
                               File(Pages(NameOf(p), c[NameOf(p)].n),
                                    c[NameOf(p)].failAt)],
          args |-> Args(PatAllPdf, Arg(FALSE, <<OutPdf>>), Arg(FALSE, <<>>))] :
            c \in [S -> Contents]} :
        S \in SUBSET {Apdf, Bpdf, Cpdf}}

\* Scenarios about the arguments: one directory, every pattern, output and
\* directory argument.
ArgScenarios ==
    {[fs |-> FsOf({L2pdf, L10pdf, OutPdf, Dpdf}),
      args |-> Args(pat, out, dir)] :
        pat \in Patterns, out \in Outputs, dir \in Directories}

Scenarios == NameScenarios \cup ContentScenarios \cup ArgScenarios

\* -------------------------------------------------------------------- state

VARIABLES
    fs,             \* the file system: path -> entry
    args,           \* the parsed command line: pattern, output, directory
    run,            \* 1 in the first invocation, 2 in the one that follows it
    pc,             \* where the invocation is: main, find, merge, loop, write, exit
    fs0,            \* the file system as the invocation found it
    directory,      \* main's directory, resolved
    output_path,    \* main's output_path, resolved
    matching_pdfs,  \* what find_matching_pdfs returned
    idx,            \* merge_pdfs: the index of the candidate the loop is at
    writer,         \* merge_pdfs: the pages added to the PdfWriter
    log,            \* the reads of candidates and the writes of the output, in order
    exitCode,       \* the process's exit status
    reason,         \* why it exited
    history         \* the outcome of each finished invocation

vars ==
    <<fs, args, run, pc, fs0, directory, output_path, matching_pdfs, idx,
      writer, log, exitCode, reason, history>>

Init ==
    /\ \E sc \in Scenarios : fs = sc.fs /\ args = sc.args
    /\ run = 1
    /\ pc = "main"
    /\ fs0 = fs
    /\ directory = <<>>
    /\ output_path = <<>>
    /\ matching_pdfs = <<>>
    /\ idx = 0
    /\ writer = <<>>
    /\ log = <<>>
    /\ exitCode = 0
    /\ reason = ""
    /\ history = <<>>

\* The end of an invocation: sys.exit(code), an uncaught exception (status 1),
\* or the return from main (status 0).  wrote tells whether the output file
\* was written, pages what was written to it.
Exit(code, why, wrote, pages, candidates) ==
    /\ pc' = "exit"
    /\ exitCode' = code
    /\ reason' = why
    /\ history' = Append(history, [code |-> code, reason |-> why, wrote |-> wrote,
                                   pages |-> pages, candidates |-> candidates])

\* --------------------------------------------------------------------- main

\* Path(args.directory).resolve(): a relative directory is taken from the
\* working directory.
Resolve(arg) == IF arg.abs THEN arg.path ELSE Cwd \o arg.path

\* not directory.exists() or not directory.is_dir()
InvalidDirectory(f, d) == ~Exists(f, d) \/ ~IsDir(f, d)

\* output_path.suffix.lower() != '.pdf'
NeedsSuffix(path) == Lower(suffix(NameOf(path))) # DotPdf

\* output_path.with_suffix('.pdf') when the suffix is not '.pdf'.
EnsurePdfSuffix(path) ==
    IF NeedsSuffix(path)
    THEN ParentOf(path) \o <<with_suffix(NameOf(path), DotPdf)>>
    ELSE path

\* directory / output_path unless output_path.is_absolute()
PlaceOutput(d, out, path) == IF out.abs THEN path ELSE d \o path

\* main, up to the call of find_matching_pdfs.
Main ==
    /\ pc = "main"
    /\ LET d == Resolve(args.directory)
       IN  /\ directory' = d
           /\ IF InvalidDirectory(fs, d)
              THEN /\ Exit(1, "directory", FALSE, <<>>, <<>>)
                   /\ UNCHANGED output_path
              ELSE IF NeedsSuffix(args.output.path)
                      /\ WithSuffixRaises(NameOf(args.output.path))
              THEN /\ Exit(1, "with_suffix ValueError", FALSE, <<>>, <<>>)
                   /\ UNCHANGED output_path
              ELSE /\ output_path' =
                          PlaceOutput(d, args.output, EnsurePdfSuffix(args.output.path))
                   /\ pc' = "find"
                   /\ UNCHANGED <<exitCode, reason, history>>
    /\ UNCHANGED <<fs, args, run, fs0, matching_pdfs, idx, writer, log>>

\* ------------------------------------------------------- find_matching_pdfs

KeepsFileAnyName(f, pattern, p) ==
    IsFile(f, p) /\ Lower(suffix(NameOf(p))) = DotPdf

KeepsFileCaseSensitive(f, pattern, p) ==
    IsFile(f, p) /\ suffix(NameOf(p)) = DotPdf /\ Search(pattern, NameOf(p))

\* file_path.is_file() and file_path.suffix.lower() == '.pdf' and
\* regex.search(filename)
KeepsFile(f, pattern, p) ==
    IsFile(f, p) /\ Lower(suffix(NameOf(p))) = DotPdf /\ Search(pattern, NameOf(p))

\* matching_files before the sort, for one order of enumeration.
MatchingFiles(f, pattern, enum) ==
    LET Keep(p) == KeepsFile(f, pattern, p) IN SelectSeq(enum, Keep)

\* find_matching_pdfs.
FindMatchingPdfs ==
    /\ pc = "find"
    /\ IF CompileRaises(args.pattern)
       THEN /\ Exit(1, "regex", FALSE, <<>>, <<>>)
            /\ UNCHANGED matching_pdfs
       ELSE \E enum \in Enumerations(IterDir(fs, directory)) :
               LET found == MatchingFiles(fs, args.pattern, enum)
               IN  IF SortRaises(found)
                   THEN /\ Exit(1, "int ValueError", FALSE, <<>>, <<>>)
                        /\ UNCHANGED matching_pdfs
                   ELSE /\ matching_pdfs' = SortByName(found)
                        /\ pc' = "merge"
                        /\ UNCHANGED <<exitCode, reason, history>>
    /\ UNCHANGED <<fs, args, run, fs0, directory, output_path, idx, writer, log>>

\* --------------------------------------------------------------- merge_pdfs

NeverEmpty(pdf_files) == FALSE

\* not pdf_files
NoFiles(pdf_files) == pdf_files = <<>>

\* merge_pdfs, up to its loop: the return on an empty list, or a new PdfWriter.
MergePdfs ==
    /\ pc = "merge"
    /\ IF NoFiles(matching_pdfs)
       THEN /\ Exit(0, "no files", FALSE, <<>>, matching_pdfs)
            /\ UNCHANGED <<idx, writer>>
       ELSE /\ writer' = <<>>
            /\ idx' = 1
            /\ pc' = IF Len(matching_pdfs) < 1 THEN "write" ELSE "loop"
            /\ UNCHANGED <<exitCode, reason, history>>
    /\ UNCHANGED <<fs, args, run, fs0, directory, output_path, matching_pdfs, log>>

\* Whether reading a file raises.
ReadRaises(file) == file.failAt # 0

CopiedPagesButLast(file) ==
    IF file.failAt = 0 THEN SubSeq(file.pages, 1, Len(file.pages) - 1)
    ELSE IF file.failAt <= 2 THEN <<>>
    ELSE SubSeq(file.pages, 1, file.failAt - 2)

\* The pages writer.add_page has added when the loop over a file's pages
\* ends: all of them, or those before the page that raised.
CopiedPages(file) ==
    IF file.failAt = 0 THEN file.pages
    ELSE IF file.failAt <= 2 THEN <<>>
    ELSE SubSeq(file.pages, 1, file.failAt - 2)

BreakOnFailure(i, failed) == IF failed THEN Len(matching_pdfs) + 1 ELSE i + 1

\* The candidate the for loop goes to next: continue, after a failure too.
NextCandidate(i, failed) == i + 1

\* One iteration of the loop of merge_pdfs: the try block and its handler.
ProcessFile ==
    /\ pc = "loop"
    /\ idx <= Len(matching_pdfs)
    /\ LET file == fs[matching_pdfs[idx]]
           next == NextCandidate(idx, ReadRaises(file))
       IN  /\ writer' = writer \o CopiedPages(file)
           /\ log' = Append(log, [op |-> "read", path |-> matching_pdfs[idx]])
           /\ idx' = next
           /\ pc' = IF next > Len(matching_pdfs) THEN "write" ELSE "loop"
    /\ UNCHANGED <<fs, args, run, fs0, directory, output_path, matching_pdfs,
                   exitCode, reason, history>>

\* The end of merge_pdfs: the output file is opened and written.
WriteOutput ==
    /\ pc = "write"
    /\ log' = Append(log, [op |-> "write", path |-> output_path])
    /\ IF OpenForWriteRaises(fs, output_path)
       THEN /\ Exit(1, "write", FALSE, <<>>, matching_pdfs)
            /\ UNCHANGED fs
       ELSE /\ fs' = WriteFile(fs, output_path, writer)
            /\ Exit(0, "merged", TRUE, writer, matching_pdfs)
    /\ UNCHANGED <<args, run, fs0, directory, output_path, matching_pdfs, idx,
                   writer>>

\* The tool is run again with the same arguments, on the directory as the
\* first invocation left it.
Rerun ==
    /\ pc = "exit"
    /\ run = 1
    /\ run' = 2
    /\ pc' = "main"
    /\ fs0' = fs
    /\ directory' = <<>>
    /\ output_path' = <<>>
    /\ matching_pdfs' = <<>>
    /\ idx' = 0
    /\ writer' = <<>>
    /\ log' = <<>>
    /\ exitCode' = 0
    /\ reason' = ""
    /\ UNCHANGED <<fs, args, history>>

Next ==
    \/ Main
    \/ FindMatchingPdfs
    \/ MergePdfs
    \/ ProcessFile
    \/ WriteOutput
    \/ Rerun

Spec == Init /\ [][Next]_vars

\* ------------------------------------------------------------------- claims

\* find_matching_pdfs has returned in this invocation.
FindReturned ==
    \/ pc \in {"merge", "loop", "write"}
    \/ pc = "exit" /\ reason \in {"no files", "merged", "write"}

\* main has resolved the output path in this invocation.
OutputResolved == pc # "main" /\ reason \notin {"directory", "with_suffix ValueError"}

\* The pages of all the candidates, in order, as the invocation found them.
RECURSIVE AllPages(_, _)
AllPages(f, cands) ==
    IF cands = <<>> THEN <<>>
    ELSE f[Head(cands)].pages \o AllPages(f, Tail(cands))

\* The pages of the candidates that read without error, in order.
RECURSIVE ReadablePages(_, _)
ReadablePages(f, cands) ==
    IF cands = <<>> THEN <<>>
    ELSE (IF f[Head(cands)].failAt = 0 THEN f[Head(cands)].pages ELSE <<>>)
             \o ReadablePages(f, Tail(cands))

RECURSIVE PageCount(_, _)
PageCount(f, cands) ==
    IF cands = <<>> THEN 0
    ELSE Len(f[Head(cands)].pages) + PageCount(f, Tail(cands))

\* C1: when the merge has written its output, the output holds no page of a
\* candidate whose reading raised, and every page of every other candidate,
\* in candidate order.
C1_FailedFilesSkipped ==
    (pc = "exit" /\ reason = "merged")
        => fs[output_path].pages = ReadablePages(fs0, matching_pdfs)

\* C2: when every candidate is read without error, the written output is the
\* concatenation of the candidates' pages, in candidate order and in each
\* file's own order, and its page count is the sum of theirs.
C2_Concatenation ==
    (/\ pc = "exit"
     /\ reason = "merged"
     /\ \A i \in 1..Len(matching_pdfs) : fs0[matching_pdfs[i]].failAt = 0)
        => /\ fs[output_path].pages = AllPages(fs0, matching_pdfs)
           /\ Len(fs[output_path].pages) = PageCount(fs0, matching_pdfs)

\* A.pdf of 2 pages and B.pdf of 3 pages were merged into 5 pages.
C2_Witness ==
    /\ pc = "exit"
    /\ reason = "merged"
    /\ matching_pdfs = <<Cwd \o <<Apdf>>, Cwd \o <<Bpdf>>>>
    /\ fs0[Cwd \o <<Apdf>>] = File(Pages(Apdf, 2), 0)
    /\ fs0[Cwd \o <<Bpdf>>] = File(Pages(Bpdf, 3), 0)
    /\ fs[output_path].pages = Pages(Apdf, 2) \o Pages(Bpdf, 3)

\* C3: the exit status is non-zero exactly when the directory is missing or
\* not a directory, the pattern does not compile, or writing the output fails.
C3_ExitStatus ==
    pc = "exit"
        => (exitCode # 0 <=>
               \/ InvalidDirectory(fs0, Resolve(args.directory))
               \/ CompileRaises(args.pattern)
               \/ reason = "write")

\* C4: when no file matches, the output path is neither written nor created,
\* nothing else changes, and the exit status is 0.
C4_EmptyMatchWritesNothing ==
    (pc = "exit" /\ FindReturned /\ matching_pdfs = <<>>)
        => /\ exitCode = 0
           /\ fs = fs0
           /\ \A i \in 1..Len(log) : log[i].op # "write"

\* No file matched, and a file already at the output path was left as it was.
C4_Witness ==
    /\ pc = "exit"
    /\ FindReturned
    /\ matching_pdfs = <<>>
    /\ IsFile(fs0, output_path)
    /\ fs[output_path] = fs0[output_path]

\* The position of a path in the returned list, 0 when it is not in it.
IndexOf(list, p) ==
    IF \E i \in 1..Len(list) : list[i] = p
    THEN CHOOSE i \in 1..Len(list) : list[i] = p
    ELSE 0

\* One run is smaller than another: two digit runs as integers, two
\* non-digit runs as lower-cased text.
RunSmaller(x, y) ==
    \/ x.t = "int" /\ y.t = "int" /\ x.n < y.n
    \/ x.t = "str" /\ y.t = "str" /\ StrLess(x.s, y.s)

\* C5: the returned list is in natural order: of two returned names whose
\* keys differ at some run, the one with the smaller first differing run
\* comes first; and L2.pdf comes before L10.pdf whenever both are returned.
C5_NaturalOrder ==
    FindReturned =>
        /\ \A i, j \in 1..Len(matching_pdfs) :
               LET a == natural_sort_key(NameOf(matching_pdfs[i]))
                   b == natural_sort_key(NameOf(matching_pdfs[j]))
                   d == FirstDiff(a, b)
               IN  (i < j /\ d # 0) => RunSmaller(a[d], b[d])
        /\ LET i2 == IndexOf(matching_pdfs, directory \o <<L2pdf>>)
               i10 == IndexOf(matching_pdfs, directory \o <<L10pdf>>)
           IN  (i2 # 0 /\ i10 # 0) => i2 < i10

\* L2.pdf, L10.pdf and a third file were returned.
C5_Witness ==
    /\ FindReturned
    /\ Len(matching_pdfs) = 3
    /\ IndexOf(matching_pdfs, directory \o <<L2pdf>>) # 0
    /\ IndexOf(matching_pdfs, directory \o <<L10pdf>>) # 0

\* C6: the returned list holds, once each, exactly the immediate entries of
\* the directory that are regular files, have the suffix .pdf in any letter
\* case, and whose name holds a match of the pattern, letter case ignored.
C6_ExactlyTheMatches ==
    FindReturned =>
        /\ {matching_pdfs[i] : i \in 1..Len(matching_pdfs)} =
               {p \in DOMAIN fs0 :
                   /\ ParentOf(p) = directory
                   /\ p # <<>>
                   /\ fs0[p].kind = "file"
                   /\ Lower(suffix(NameOf(p))) = DotPdf
                   /\ Search(args.pattern, NameOf(p))}
        /\ \A i, j \in 1..Len(matching_pdfs) :
               i # j => matching_pdfs[i] # matching_pdfs[j]

\* ^l.*\.pdf$ returned L2.pdf and left out the directory d.pdf, the file
\* L3.pdf inside it and out.pdf.
C6_Witness ==
    /\ FindReturned
    /\ args.pattern = PatAnchored
    /\ IsDir(fs0, directory \o <<Dpdf>>)
    /\ IsFile(fs0, directory \o <<Dpdf, L3pdf>>)
    /\ IsFile(fs0, directory \o <<OutPdf>>)
    /\ IndexOf(matching_pdfs, directory \o <<L2pdf>>) # 0

\* A name ends in ".pdf", letter case ignored.
EndsInPdf(name) ==
    Len(name) >= 4 /\ Lower(SubSeq(name, Len(name) - 3, Len(name))) = DotPdf

\* C7, as stated: a name that does not end in .pdf gets .pdf added to it, a
\* name that does is left as it is, and the resolved name ends in .pdf.
C7_SuffixAdded ==
    OutputResolved =>
        LET given == NameOf(args.output.path)
            got == NameOf(output_path)
        IN  /\ got = IF EndsInPdf(given) THEN given ELSE given \o DotPdf
            /\ EndsInPdf(got)

\* C7, amended: the suffix of a name is what starts at its last dot, when
\* that dot is neither its first nor its last character.  A name whose suffix
\* is .pdf (in any letter case) is left as it is; otherwise .pdf replaces the
\* suffix, or is appended to a name that has none; the resolved name ends in
\* .pdf.
C7_SuffixReplaced ==
    OutputResolved =>
        LET given == NameOf(args.output.path)
            got == NameOf(output_path)
            i == LastDot(given)
            hasSuffix == 1 < i /\ i < Len(given)
        IN  /\ got = IF hasSuffix /\ Lower(SubSeq(given, i, Len(given))) = DotPdf
                     THEN given
                     ELSE IF hasSuffix THEN SubSeq(given, 1, i - 1) \o DotPdf
                     ELSE given \o DotPdf
            /\ EndsInPdf(got)
            /\ ParentOf(output_path) =
                   (IF args.output.abs THEN <<>> ELSE directory)
                       \o ParentOf(args.output.path)

\* -o out.txt was resolved to out.pdf in the scanned directory.
C7_Witness ==
    /\ OutputResolved
    /\ NameOf(args.output.path) = OutTxt
    /\ output_path = directory \o <<OutPdf>>

\* C8: with a non-empty candidate list, the candidates are read once each in
\* list order whatever fails, the output is written once, after the last of
\* them, and the file system does not change before that.
C8_ReadAllThenWriteOnce ==
    /\ Len(log) <= Len(matching_pdfs) + 1
    /\ \A i \in 1..Len(log) :
           IF i <= Len(matching_pdfs)
           THEN log[i] = [op |-> "read", path |-> matching_pdfs[i]]
           ELSE log[i] = [op |-> "write", path |-> output_path]
    /\ (pc = "write") => Len(log) = Len(matching_pdfs)
    /\ (pc = "exit" /\ FindReturned /\ matching_pdfs # <<>>)
           => Len(log) = Len(matching_pdfs) + 1
    /\ (fs # fs0) => (pc = "exit" /\ log # <<>> /\ log[Len(log)].op = "write")

\* Three candidates all failed to be read, and the output was still written.
C8_Witness ==
    /\ pc = "exit"
    /\ reason = "merged"
    /\ Len(matching_pdfs) = 3
    /\ \A i \in 1..3 : fs0[matching_pdfs[i]].failAt # 0
    /\ Len(log) = 4
    /\ log[4].op = "write"

\* C9, as stated: whatever the order in which the directory is enumerated,
\* the same list is returned.
C9_SameOrderForAnyEnumeration ==
    pc = "merge" =>
        \A e \in Enumerations(IterDir(fs0, directory)) :
            SortByName(MatchingFiles(fs0, args.pattern, e)) = matching_pdfs

\* The returned names have pairwise different sort keys.
DistinctKeys(list) ==
    \A i, j \in 1..Len(list) :
        i # j => natural_sort_key(NameOf(list[i])) # natural_sort_key(NameOf(list[j]))

\* C9, amended: when the matching names have pairwise different sort keys,
\* the same list is returned whatever the order of enumeration.
C9_SameOrderWhenKeysDiffer ==
    (pc = "merge" /\ DistinctKeys(matching_pdfs)) =>
        \A e \in Enumerations(IterDir(fs0, directory)) :
            SortByName(MatchingFiles(fs0, args.pattern, e)) = matching_pdfs

\* Three names of different keys were returned.
C9_Witness ==
    /\ pc = "merge"
    /\ DistinctKeys(matching_pdfs)
    /\ Len(matching_pdfs) = 3

\* C10, as stated: the second of two identical invocations writes what the
\* first wrote, and does not read the first one's output as a candidate.
C10_SecondRunSame ==
    Len(history) = 2 =>
        /\ history[2].wrote = history[1].wrote
        /\ history[2].pages = history[1].pages
        /\ history[1].wrote
               => \A i \in 1..Len(history[2].candidates) :
                      history[2].candidates[i] # output_path

\* The resolved output path is an entry of the scanned directory whose name
\* matches the pattern.
OutputMatches ==
    /\ output_path # <<>>
    /\ ParentOf(output_path) = directory
    /\ Search(args.pattern, NameOf(output_path))

\* C10, amended: the second invocation ends as the first did and writes what
\* the first wrote, provided the output file is not itself a matching entry
\* of the scanned directory and no two candidates have equal sort keys.
C10_SecondRunSameUnlessOutputMatches ==
    (/\ Len(history) = 2
     /\ ~OutputMatches
     /\ DistinctKeys(history[1].candidates)
     /\ DistinctKeys(history[2].candidates))
        => /\ history[2].code = history[1].code
           /\ history[2].wrote = history[1].wrote
           /\ history[2].pages = history[1].pages
           /\ history[2].candidates = history[1].candidates

\* Two invocations wrote the same pages to an output file placed in the
\* scanned directory.
C10_Witness ==
    /\ Len(history) = 2
    /\ ~OutputMatches
    /\ ParentOf(output_path) = directory
    /\ history[1].wrote
    /\ history[2].wrote
    /\ Len(history[2].pages) >= 2
    /\ history[2].pages = history[1].pages

====
